---- MODULE Spec2Model ----
(***************************************************************************)
(* Model of the two custom-resource Lambda handlers of the repository:     *)
(*   - the configuration handler                                           *)
(*       src/src/lambda/update_configuration/index.py                      *)
(*   - the configuration copy handler                                      *)
(*       src/terraform/lambda_src/configuration_copy_function/index.py     *)
(* A behaviour is the life of one deployed function (fn): a bounded number *)
(* of invocations, each run step by step from the event to the return or   *)
(* the raise.  The DynamoDB table and the callbacks seen by the            *)
(* orchestrator persist across invocations; everything else is local to an *)
(* invocation.  The environment (S3 get/copy, DynamoDB put, the callback   *)
(* PUT, the availability of the cfnresponse module) is nondeterministic.   *)
(***************************************************************************)
EXTENDS Naturals, Sequences, FiniteSets, TLC

VARIABLES
    fn,                     \* which handler this deployment runs: "config" | "copy"
    cfnresponse_available,  \* whether `import cfnresponse` succeeds in this runtime
    table,                  \* DynamoDB table: partition key value -> stored item
    reported,               \* physical ids the orchestrator was given, over all invocations
    invocations,            \* number of invocations started
    event,                  \* the caller's event object (a mapping)
    entry_event,            \* the event as it was when the invocation started
    context,                \* the execution context (log_stream_name)
    pc,                     \* position of the running invocation
    properties,             \* config handler: the copied ResourceProperties
    idx,                    \* copy handler: position in file_list
    copied_count,           \* copy handler: copied_count
    failed_copies,          \* copy handler: failed_copies
    puts,                   \* put_item calls of this invocation
    copies,                 \* copy_object calls of this invocation
    callbacks,              \* callback attempts of this invocation
    error,                  \* the exception being handled, "" when none
    result                  \* how the invocation ended

vars == <<fn, cfnresponse_available, table, reported, invocations, event,
          entry_event, context, pc, properties, idx, copied_count,
          failed_copies, puts, copies, callbacks, error, result>>

-----------------------------------------------------------------------------
(* Bounds of the model *)

MaxInvocations == 2
MaxFiles == 2

-----------------------------------------------------------------------------
(* Python values.  A value carries its type as its only field name, so two *)
(* values of different types are different without comparing payloads.     *)

None == [none |-> TRUE]
Str(s) == [str |-> s]
Dict(m) == [map |-> m]
List(l) == [lst |-> l]
Float(s) == [float |-> s]
Decimal(s) == [decimal |-> s]

\* A key that is not in a mapping, when building events
Absent == [absent |-> TRUE]

IsStr(v) == "str" \in DOMAIN v
IsDict(v) == "map" \in DOMAIN v
IsList(v) == "lst" \in DOMAIN v
IsFloat(v) == "float" \in DOMAIN v

EmptyMap == << >>

\* Python truthiness of the values used here
Truthy(v) ==
    IF IsStr(v) THEN v.str # ""
    ELSE IF IsDict(v) THEN DOMAIN v.map # {}
    ELSE IF IsList(v) THEN Len(v.lst) > 0
    ELSE ~("none" \in DOMAIN v)

\* d.get(k, default) and `k in d` on a mapping
Get(d, k, default) == IF k \in DOMAIN d THEN d[k] ELSE default
Has(d, k) == k \in DOMAIN d

\* {**d, k: v}
Put(d, k, v) == (k :> v) @@ d
\* d without key k
Without(d, k) == [x \in (DOMAIN d) \ {k} |-> d[x]]
\* the one-key mapping {k: v}, or {} when the key is left out of an event
Opt(k, v) == IF v = Absent THEN EmptyMap ELSE (k :> v)

-----------------------------------------------------------------------------
(* str methods *)

RECURSIVE lstrip(_, _)
lstrip(s, c) ==
    IF Len(s) > 0 /\ SubSeq(s, 1, 1) = c THEN lstrip(SubSeq(s, 2, Len(s)), c) ELSE s

RECURSIVE rstrip(_, _)
rstrip(s, c) ==
    IF Len(s) > 0 /\ SubSeq(s, Len(s), Len(s)) = c
    THEN rstrip(SubSeq(s, 1, Len(s) - 1), c) ELSE s

\* s.strip(): whitespace removed at both ends
strip(s) == rstrip(lstrip(s, " "), " ")

startswith(s, p) == Len(s) >= Len(p) /\ SubSeq(s, 1, Len(p)) = p

\* sep.join(seq) of the first n strings of seq
RECURSIVE JoinFirst(_, _, _)
JoinFirst(seq, sep, n) ==
    IF n = 0 \/ Len(seq) = 0 THEN ""
    ELSE IF n = 1 \/ Len(seq) = 1 THEN seq[1]
    ELSE seq[1] \o sep \o JoinFirst(Tail(seq), sep, n - 1)

\* Sequences of length at most n over S
SeqsUpTo(S, n) == UNION {[1..k -> S] : k \in 0..n}

\* [f for f in seq if Test(f)] length
RECURSIVE CountNonBlank(_)
CountNonBlank(seq) ==
    IF Len(seq) = 0 THEN 0
    ELSE (IF strip(Head(seq).str) # "" THEN 1 ELSE 0) + CountNonBlank(Tail(seq))

-----------------------------------------------------------------------------
(* How an invocation ends *)

Running == [kind |-> "running"]
Returned(v) == [kind |-> "return", value |-> v]
Raised(e) == [kind |-> "raise", error |-> e]

-----------------------------------------------------------------------------
(* Events.  An event is a mapping; a key that the caller leaves out is not *)
(* in its domain.                                                          *)

RequestTypes ==
    {Absent, Str(""), Str("Create"), Str("Update"), Str("Delete"), Str("Replace")}
StackIds == {Absent, Str("stack-1")}
ResponseURLs == {Absent, Str("https://cfn.example/put")}
LogStreams == {"stream-1", "stream-2"}

\* The orchestrator sends LogicalResourceId and RequestId together with StackId
MakeEvent(rt, sid, url, props) ==
    Opt("RequestType", rt) @@ Opt("StackId", sid)
    @@ Opt("LogicalResourceId", IF sid = Absent THEN Absent ELSE Str("ConfigResource"))
    @@ Opt("RequestId", IF sid = Absent THEN Absent ELSE Str("req-1"))
    @@ Opt("ResponseURL", url) @@ Opt("ResourceProperties", props)

\* FileList entries: plain, with a leading slash, blank
FileEntries == {Str("a.json"), Str("/b.json"), Str("  ")}
FileLists == SeqsUpTo(FileEntries, MaxFiles)

\* <<SourcePrefix, TargetPrefix>>
PrefixPairs == {<<Str(""), Absent>>, <<Str(" cfg/ "), Str("out//")>>}

\* Prefixes of nothing but blanks and slashes or with several trailing slashes,
\* and entries with several leading slashes or of nothing but a slash
SlashPrefixPairs == {<<Str(" // "), Str("/")>>, <<Str("cfg//"), Str(" out ")>>}
SlashFileLists == {<<Str("//c.json")>>, <<Str(" /d.json "), Str("/")>>}

CopyBase(sp, tp) ==
    ("SourceBucket" :> Str("src-bucket")) @@ ("SourcePrefix" :> sp)
    @@ ("TargetBucket" :> Str("dst-bucket")) @@ Opt("TargetPrefix", tp)

CopyProps ==
    {Absent,
     Dict(CopyBase(Str("cfg"), Absent)),                                 \* FileList missing
     Dict(CopyBase(Str("cfg"), Absent) @@ ("FileList" :> Str("a.json"))), \* FileList not a list
     Dict(CopyBase(None, Absent) @@ ("FileList" :> List(<<Str("a.json")>>)))} \* SourcePrefix null
    \cup {Dict(CopyBase(pp[1], pp[2]) @@ ("FileList" :> List(fl))) :
            pp \in PrefixPairs, fl \in FileLists}
    \cup {Dict(CopyBase(pp[1], pp[2]) @@ ("FileList" :> List(fl))) :
            pp \in SlashPrefixPairs, fl \in SlashFileLists}

CopyEvents ==
    {MakeEvent(rt, sid, url, props) :
        rt \in RequestTypes, sid \in StackIds, url \in ResponseURLs, props \in CopyProps}

-----------------------------------------------------------------------------
(* The copy handler: configuration_copy_function/index.py                  *)

\* line 81
is_cfn == Has(event, "ResponseURL")

\* line 88
copy_request_type == Get(event, "RequestType", None)
\* line 105
resource_props == Get(event, "ResourceProperties", Dict(EmptyMap)).map
\* lines 106-107
required_keys == <<"SourceBucket", "SourcePrefix", "TargetBucket", "FileList">>
NotInProps(key) == ~Has(resource_props, key)
missing_keys == SelectSeq(required_keys, NotInProps)
\* line 123
file_list == Get(resource_props, "FileList", List(<< >>))
\* lines 138-141
source_bucket == resource_props["SourceBucket"].str
source_prefix == rstrip(strip(resource_props["SourcePrefix"].str), "/")
target_bucket == resource_props["TargetBucket"].str
target_prefix == rstrip(strip(Get(resource_props, "TargetPrefix", Str("")).str), "/")

\* lines 157-162: the entry trimmed, then without its leading slashes
NormalizedPath(entry) == lstrip(strip(entry.str), "/")
\* The join with the slash always there, whatever the prefix
JoinKeyAlways(prefix, relative_file_path) == prefix \o "/" \o relative_file_path

\* lines 165-173
JoinKey(prefix, relative_file_path) ==
    IF prefix # "" THEN prefix \o "/" \o relative_file_path ELSE relative_file_path

\* The error messages
MsgMissingRequestType ==
    "Missing required field 'RequestType' in event. Must be 'Create', 'Update', or 'Delete'."
MsgUnknownRequestType(rt) ==
    "Unknown RequestType '" \o rt \o "'. Must be 'Create', 'Update', or 'Delete'."
MsgMissingKeys == "Missing required ResourceProperties: " \o JoinFirst(missing_keys, ", ", 4)
MsgFileListNotList == "FileList must be a list, got str"

\* send_cfn_response, lines 32-40: the callback body
CfnResponseBody(status, data, physical_resource_id, reason) ==
    [Status |-> status,
     Reason |-> IF reason # "" THEN reason
                ELSE "See CloudWatch Log Stream: " \o context.log_stream_name,
     PhysicalResourceId |-> IF Truthy(physical_resource_id) THEN physical_resource_id.str
                            ELSE context.log_stream_name,
     StackId |-> Get(event, "StackId", Str("")).str,
     RequestId |-> Get(event, "RequestId", Str("")).str,
     LogicalResourceId |-> Get(event, "LogicalResourceId", Str("")).str,
     Data |-> data]

\* What the orchestrator keeps of a callback
Report(body) ==
    [RequestType |-> event["RequestType"].str,
     StackId |-> body.StackId, LogicalResourceId |-> body.LogicalResourceId,
     PhysicalResourceId |-> body.PhysicalResourceId]

\* The orchestrator takes the resource's physical id from the delivered
\* SUCCESS callbacks of its Create and Update requests
Reports(body, delivered) ==
    IF /\ delivered /\ body.Status = "SUCCESS"
       /\ Get(event, "RequestType", None) \in {Str("Create"), Str("Update")}
    THEN {Report(body)} ELSE {}

\* send_cfn_response, lines 26-29: no PUT without a ResponseURL
SendSkips == ~Truthy(Get(event, "ResponseURL", None))

\* send_cfn_response, lines 14-56; delivered: whether urlopen succeeded
send_cfn_response(status, data, physical_resource_id, reason, delivered) ==
    IF SendSkips
    THEN UNCHANGED <<callbacks, reported>>
    ELSE LET body == CfnResponseBody(status, data, physical_resource_id, reason)
         IN /\ callbacks' = Append(callbacks, [body |-> body, delivered |-> delivered])
            /\ reported' = reported \cup Reports(body, delivered)

\* lines 54-56: HTTPError/URLError is re-raised
SendRaises(delivered) == ~SendSkips /\ ~delivered

\* Inside the try block: `if is_cfn: send_cfn_response(...); return`, else
\* `return direct`.  A raise of send_cfn_response goes to the except clause.
Respond(status, data, reason, direct) ==
    IF is_cfn
    THEN \E delivered \in BOOLEAN :
            /\ send_cfn_response(status, data, None, reason, delivered)
            /\ IF SendRaises(delivered)
               THEN pc' = "except" /\ error' = "URLError" /\ result' = result
               ELSE pc' = "done" /\ error' = error /\ result' = Returned(None)
    ELSE /\ pc' = "done" /\ error' = error /\ result' = Returned(direct)
         /\ UNCHANGED <<callbacks, reported>>

\* A raise inside the try block
Raise(e) ==
    /\ pc' = "except" /\ error' = e /\ result' = result
    /\ UNCHANGED <<callbacks, reported>>

DirectError(code, msg) == [statusCode |-> code, body |-> [error |-> msg]]

\* lines 86-150 and 260-287: validation and dispatch
CopyValidate ==
    /\ fn = "copy" /\ pc = "start"
    /\ IF ~Truthy(copy_request_type)
       THEN /\ Respond("FAILED", EmptyMap, MsgMissingRequestType,
                       DirectError(400, MsgMissingRequestType))
       ELSE IF Len(missing_keys) > 0
       THEN /\ Respond("FAILED", EmptyMap, MsgMissingKeys, DirectError(400, MsgMissingKeys))
       ELSE IF ~IsList(file_list)
       THEN /\ Respond("FAILED", EmptyMap, MsgFileListNotList,
                       DirectError(400, MsgFileListNotList))
       ELSE IF ~IsStr(resource_props["SourcePrefix"])
       THEN /\ Raise("AttributeError")
       ELSE IF copy_request_type.str \in {"Create", "Update"}
       THEN /\ pc' = "copy_loop"
            /\ UNCHANGED <<error, result, callbacks, reported>>
       ELSE IF copy_request_type.str = "Delete"
       THEN /\ Respond("SUCCESS",
                       [message |-> "Delete completed - configuration files retained"], "",
                       [statusCode |-> 200,
                        body |-> [message |-> "Delete completed - configuration files retained"]])
       ELSE /\ Respond("FAILED", EmptyMap, MsgUnknownRequestType(copy_request_type.str),
                       DirectError(400, MsgUnknownRequestType(copy_request_type.str)))
    /\ UNCHANGED <<fn, cfnresponse_available, table, invocations, event, entry_event,
                   context, properties, idx, copied_count, failed_copies, puts,
                   copies>>

\* lines 178-185: the copy_object request
CopyRequest(relative_file_path) ==
    [CopySource |-> [Bucket |-> source_bucket,
                     Key |-> JoinKey(source_prefix, relative_file_path)],
     Bucket |-> target_bucket,
     Key |-> JoinKey(target_prefix, relative_file_path)]

\* The loop of lines 155-207 as it would be if it stopped at the first failed copy
CopyFileStopAtFailure ==
    /\ fn = "copy" /\ pc = "copy_loop" /\ idx <= Len(file_list.lst)
    /\ IF strip(file_list.lst[idx].str) = ""
       THEN idx' = idx + 1 /\ UNCHANGED <<copies, copied_count, failed_copies>>
       ELSE LET request == CopyRequest(NormalizedPath(file_list.lst[idx]))
            IN \E ok \in BOOLEAN :
                /\ copies' = Append(copies, [request |-> request, ok |-> ok])
                /\ IF ok
                   THEN /\ copied_count' = copied_count + 1
                        /\ failed_copies' = failed_copies
                        /\ idx' = idx + 1
                   ELSE /\ copied_count' = copied_count
                        /\ failed_copies' =
                             Append(failed_copies,
                                    [key |-> request.CopySource.Key, error |-> "ClientError"])
                        /\ idx' = Len(file_list.lst) + 1
    /\ UNCHANGED <<fn, cfnresponse_available, table, reported, invocations, event,
                   entry_event, context, pc, properties, puts, callbacks,
                   error, result>>

\* lines 155-207: one iteration of the loop over file_list
CopyFile ==
    /\ fn = "copy" /\ pc = "copy_loop" /\ idx <= Len(file_list.lst)
    /\ idx' = idx + 1
    /\ IF strip(file_list.lst[idx].str) = ""
       THEN UNCHANGED <<copies, copied_count, failed_copies>>
       ELSE LET request == CopyRequest(NormalizedPath(file_list.lst[idx]))
            IN \E ok \in BOOLEAN :
                /\ copies' = Append(copies, [request |-> request, ok |-> ok])
                /\ IF ok
                   THEN copied_count' = copied_count + 1 /\ failed_copies' = failed_copies
                   ELSE /\ copied_count' = copied_count
                        /\ failed_copies' =
                             Append(failed_copies,
                                    [key |-> request.CopySource.Key, error |-> "ClientError"])
    /\ UNCHANGED <<fn, cfnresponse_available, table, reported, invocations, event,
                   entry_event, context, pc, properties, puts, callbacks,
                   error, result>>

\* lines 210-214
response_data ==
    [CopiedFiles |-> copied_count, FailedFiles |-> Len(failed_copies),
     TotalFiles |-> CountNonBlank(file_list.lst)]

\* line 217
CompleteFailure == copied_count = 0 /\ Len(file_list.lst) > 0

FailedKeys == [i \in 1..Len(failed_copies) |-> failed_copies[i].key]
\* lines 224-228 (the per-key error texts are left out)
MsgCompleteFailure ==
    "Failed to copy any configuration files. Failed keys: "
    \o JoinFirst(FailedKeys, ", ", 5) \o (IF Len(FailedKeys) > 5 THEN "..." ELSE "") \o "."

\* lines 241-249
SuccessData ==
    ("message" :> ("Successfully copied " \o ToString(copied_count) \o "/"
                   \o ToString(response_data.TotalFiles) \o " configuration files"))
    @@ (IF Len(failed_copies) > 0
        THEN ("warning" :> (ToString(Len(failed_copies)) \o " files failed to copy"))
        ELSE EmptyMap)
    @@ response_data

\* lines 209-258: after the loop
CopyFinish ==
    /\ fn = "copy" /\ pc = "copy_loop" /\ idx > Len(file_list.lst)
    /\ IF CompleteFailure
       THEN Respond("FAILED", response_data, MsgCompleteFailure,
                    [statusCode |-> 500,
                     body |-> ("error" :> MsgCompleteFailure) @@ response_data])
       ELSE Respond("SUCCESS", SuccessData, "", [statusCode |-> 200, body |-> SuccessData])
    /\ UNCHANGED <<fn, cfnresponse_available, table, invocations, event, entry_event,
                   context, properties, idx, copied_count, failed_copies, puts,
                   copies>>

\* lines 289-304: the except clause; a raise of send_cfn_response leaves the handler
CopyExcept ==
    /\ fn = "copy" /\ pc = "except"
    /\ pc' = "done"
    /\ LET error_msg == "Error copying configuration files: " \o error
       IN IF is_cfn
          THEN \E delivered \in BOOLEAN :
                  /\ send_cfn_response("FAILED", EmptyMap, None, error_msg, delivered)
                  /\ result' = IF SendRaises(delivered) THEN Raised("URLError")
                               ELSE Returned(None)
          ELSE /\ result' = Returned([statusCode |-> 500,
                                      body |-> [error |-> error_msg, details |-> "traceback"]])
               /\ UNCHANGED <<callbacks, reported>>
    /\ UNCHANGED <<fn, cfnresponse_available, table, invocations, event, entry_event,
                   context, properties, idx, copied_count, failed_copies, puts,
                   copies, error>>

-----------------------------------------------------------------------------
(* Inputs of the configuration handler                                     *)

Sentinel == "Custom inference settings"

SchemaURI == "s3://cfg-bucket/schema.yaml"
DefaultURI == "s3://cfg-bucket/default.json"
BadURI == "s3://cfg-bucket"

SchemaContent == Dict([type |-> Str("object")])
\* classification and extraction sections
DefaultBoth ==
    Dict([classification |-> Dict([model |-> Str("model-A")]),
          extraction |-> Dict([model |-> Str("model-B"), temperature |-> Float("0.5")])])
\* a mapping with a top-level key named Configuration, and no extraction section
DefaultKeyed ==
    Dict([classification |-> Dict([model |-> Str("model-A")]),
          Configuration |-> Str("Custom")])
CustomReal == Dict([Info |-> Str("mine"), notes |-> List(<<Float("1.5")>>)])
CustomSentinel == Dict([Info |-> Str(Sentinel)])

\* The objects of the bucket: what the body of each is, and what it parses to
S3Objects ==
    (SchemaURI :> [yaml |-> SchemaContent]) @@ (DefaultURI :> [json |-> DefaultBoth])

\* <<Default, CustomClassificationModelARN, CustomExtractionModelARN>>: a
\* blank override, empty and non-string overrides, an override for a section
\* the content does not have
OverrideCases ==
    {<<DefaultBoth, Str("arn:cls"), Str("  ")>>,
     <<DefaultBoth, Str(""), List(<<Str("arn:ext")>>)>>,
     <<DefaultKeyed, Absent, Str("arn:ext")>>}

ConfigProps(sid) ==
    LET token == IF sid = Absent THEN Absent ELSE Str("arn:aws:lambda:fn")
    IN {Absent}
       \cup {Dict(Opt("ServiceToken", token) @@ Opt("Schema", sc) @@ Opt("Default", df)
                  @@ Opt("Custom", cu)) :
               sc \in {Absent, Str(SchemaURI), SchemaContent},
               df \in {Absent, DefaultKeyed},
               cu \in {Absent, Str(""), CustomSentinel, CustomReal}}
       \cup {Dict(Opt("ServiceToken", token) @@ Opt("Schema", sc) @@ Opt("Default", df)
                  @@ Opt("CustomClassificationModelARN", ca)
                  @@ Opt("CustomExtractionModelARN", ea)) :
               sc \in {Absent, Str(BadURI)},
               df \in {DefaultBoth, Str(DefaultURI), Str("plain text")},
               ca \in {Absent, Str("arn:cls")},
               ea \in {Absent, Str("arn:ext")}}
       \cup {Dict(Opt("ServiceToken", token) @@ Opt("Default", ov[1])
                  @@ Opt("CustomClassificationModelARN", ov[2])
                  @@ Opt("CustomExtractionModelARN", ov[3])) : ov \in OverrideCases}

ConfigEvents ==
    UNION {{MakeEvent(rt, sid, url, props) :
              rt \in RequestTypes, url \in ResponseURLs, props \in ConfigProps(sid)} :
           sid \in StackIds}

-----------------------------------------------------------------------------
(* The configuration handler: update_configuration/index.py                *)

\* lines 41-49: JSON first, then YAML, then the text itself
ParseBody(body) ==
    IF "json" \in DOMAIN body THEN body.json
    ELSE IF "yaml" \in DOMAIN body THEN body.yaml
    ELSE Str(body.text)

\* Position of the first "/" of s, 0 when it has none
RECURSIVE FindSlash(_, _)
FindSlash(s, i) ==
    IF i > Len(s) THEN 0 ELSE IF SubSeq(s, i, i) = "/" THEN i ELSE FindSlash(s, i + 1)

Ok(v) == [ok |-> TRUE, value |-> v]
Err(e) == [ok |-> FALSE, error |-> e]

\* fetch_content_from_s3, lines 22-56: every way the call can end
fetch_content_from_s3(s3_uri) ==
    IF ~startswith(s3_uri, "s3://") THEN {Err("ValueError")}
    ELSE IF FindSlash(SubSeq(s3_uri, 6, Len(s3_uri)), 1) = 0 THEN {Err("ValueError")}
    ELSE IF s3_uri \in DOMAIN S3Objects
         THEN {Ok(ParseBody(S3Objects[s3_uri])), Err("ClientError")}
         ELSE {Err("ClientError")}

\* resolve_content, lines 70-77
resolve_content(content) ==
    IF IsStr(content) /\ startswith(content.str, "s3://")
    THEN fetch_content_from_s3(content.str)
    ELSE {Ok(content)}

\* convert_floats_to_decimal, lines 58-68
RECURSIVE convert_floats_to_decimal(_)
convert_floats_to_decimal(obj) ==
    IF IsFloat(obj) THEN Decimal(obj.float)
    ELSE IF IsDict(obj)
    THEN Dict([k \in DOMAIN obj.map |-> convert_floats_to_decimal(obj.map[k])])
    ELSE IF IsList(obj)
    THEN List([i \in 1..Len(obj.lst) |-> convert_floats_to_decimal(obj.lst[i])])
    ELSE obj

\* lines 88-91: {'Configuration': configuration_type, **converted_data}
PutItem(configuration_type, converted_data) ==
    converted_data.map @@ ("Configuration" :> Str(configuration_type))

\* update_configuration, lines 79-95, inside the handler's try block.
\* ok: whether put_item succeeded
update_configuration(configuration_type, data, ok, next_pc) ==
    IF ~IsDict(data)
    THEN /\ pc' = "except" /\ error' = "TypeError"
         /\ UNCHANGED <<table, puts>>
    ELSE LET Item == PutItem(configuration_type, convert_floats_to_decimal(data))
         IN /\ puts' = Append(puts, [name |-> configuration_type, item |-> Item, ok |-> ok])
            /\ IF ok
               THEN /\ table' = (Item["Configuration"].str :> Item) @@ table
                    /\ pc' = next_pc /\ error' = error
               ELSE /\ pc' = "except" /\ error' = "ClientError"
                    /\ table' = table

\* generate_physical_id, lines 111-115
generate_physical_id(stack_id, logical_id) ==
    stack_id \o "/" \o logical_id \o "/configuration"

\* line 126
request_type_or_default == Get(event, "RequestType", Str("Create"))

\* lines 130-137: the copied properties without ServiceToken
CopiedProperties ==
    LET resource_properties == Get(event, "ResourceProperties", None)
    IN IF resource_properties = None THEN EmptyMap
       ELSE Without(resource_properties.map, "ServiceToken")

\* lines 124-139 and 195: entry and dispatch on the request type
ConfigStart ==
    /\ fn = "config" /\ pc = "start"
    /\ properties' = CopiedProperties
    /\ IF request_type_or_default.str \in {"Create", "Update"}
       THEN pc' = "schema" /\ result' = result
       ELSE IF request_type_or_default.str = "Delete"
       THEN pc' = "respond" /\ result' = result
       ELSE pc' = "done" /\ result' = Returned(None)    \* falls off the end
    /\ UNCHANGED <<fn, cfnresponse_available, table, reported, invocations, event,
                   entry_event, context, idx, copied_count, failed_copies, puts,
                   copies, callbacks, error>>

\* lines 141-144
ConfigSchema ==
    /\ fn = "config" /\ pc = "schema"
    /\ IF Has(properties, "Schema")
       THEN \E r \in resolve_content(properties["Schema"]), ok \in BOOLEAN :
               IF r.ok
               THEN update_configuration("Schema", Dict([Schema |-> r.value]), ok, "default")
               ELSE /\ pc' = "except" /\ error' = r.error
                    /\ UNCHANGED <<table, puts>>
       ELSE pc' = "default" /\ UNCHANGED <<table, puts, error>>
    /\ UNCHANGED <<fn, cfnresponse_available, reported, invocations, event, entry_event,
                   context, properties, idx, copied_count, failed_copies, copies,
                   callbacks, result>>

\* An override applied whenever it is a non-empty string, trimmed or not
ApplyOverrideUntrimmed(resolved_default, custom_arn, section) ==
    IF /\ Truthy(custom_arn) /\ IsStr(custom_arn)
       /\ Has(resolved_default.map, section)
    THEN Dict(Put(resolved_default.map, section,
                  Dict(Put(resolved_default.map[section].map, "model", custom_arn))))
    ELSE resolved_default

\* lines 153-157 and 160-164: one model override, written into the section
ApplyOverride(resolved_default, custom_arn, section) ==
    IF /\ Truthy(custom_arn) /\ IsStr(custom_arn) /\ strip(custom_arn.str) # ""
       /\ Has(resolved_default.map, section)
    THEN Dict(Put(resolved_default.map, section,
                  Dict(Put(resolved_default.map[section].map, "model", custom_arn))))
    ELSE resolved_default

\* lines 151-164
ApplyOverrides(resolved_default) ==
    IF IsDict(resolved_default)
    THEN ApplyOverride(
             ApplyOverride(resolved_default,
                           Get(properties, "CustomClassificationModelARN", None),
                           "classification"),
             Get(properties, "CustomExtractionModelARN", None), "extraction")
    ELSE resolved_default

\* lines 147-167.  An inline Default is the very object the event holds (the
\* copy of line 134 is shallow), so the overrides are written into the event.
ConfigDefault ==
    /\ fn = "config" /\ pc = "default"
    /\ IF Has(properties, "Default")
       THEN \E r \in resolve_content(properties["Default"]), ok \in BOOLEAN :
               IF r.ok
               THEN /\ update_configuration("Default", ApplyOverrides(r.value), ok, "custom")
                    /\ IF r.value = properties["Default"]
                       THEN /\ properties' = Put(properties, "Default", ApplyOverrides(r.value))
                            /\ event' = Put(event, "ResourceProperties",
                                            Dict(Put(event["ResourceProperties"].map, "Default",
                                                     ApplyOverrides(r.value))))
                       ELSE UNCHANGED <<properties, event>>
               ELSE /\ pc' = "except" /\ error' = r.error
                    /\ UNCHANGED <<table, puts, properties, event>>
       ELSE pc' = "custom" /\ UNCHANGED <<table, puts, error, properties, event>>
    /\ UNCHANGED <<fn, cfnresponse_available, reported, invocations, entry_event,
                   context, idx, copied_count, failed_copies, copies, callbacks, result>>

\* line 172
CustomWritable(custom_properties) ==
    IsDict(custom_properties)
    /\ Get(custom_properties.map, "Info", None) # Str(Sentinel)

\* lines 170-177
ConfigCustom ==
    /\ fn = "config" /\ pc = "custom"
    /\ IF Has(properties, "Custom") /\ CustomWritable(Get(properties, "Custom", None))
       THEN \E r \in resolve_content(properties["Custom"]), ok \in BOOLEAN :
               update_configuration("Custom", r.value, ok, "respond")
       ELSE pc' = "respond" /\ UNCHANGED <<table, puts, error>>
    /\ UNCHANGED <<fn, cfnresponse_available, reported, invocations, event, entry_event,
                   context, properties, idx, copied_count, failed_copies, copies,
                   callbacks, result>>

\* The send of the cfnresponse module (the runtime's, not in the repository),
\* as called at lines 189, 209 and 227: it reads event['ResponseURL'] (KeyError
\* when absent), PUTs the body and swallows a failed PUT.
cfnresponse_send(status, data, physical_id, delivered) ==
    LET body == [Status |-> status,
                 Reason |-> "See the details in CloudWatch Log Stream: "
                            \o context.log_stream_name,
                 PhysicalResourceId |-> physical_id,
                 StackId |-> event["StackId"].str,
                 RequestId |-> event["RequestId"].str,
                 LogicalResourceId |-> event["LogicalResourceId"].str,
                 Data |-> data]
    IN /\ callbacks' = Append(callbacks, [body |-> body, delivered |-> delivered])
       /\ reported' = reported \cup Reports(body, delivered)

\* lines 179-182 and 199-202
ConfigResponseData ==
    IF request_type_or_default.str = "Delete"
    THEN [Message |-> "Success (delete = no-op)", Status |-> "SUCCESS"]
    ELSE [Message |-> "Successfully "
                      \o (IF request_type_or_default.str = "Create" THEN "create" ELSE "update")
                      \o "d configurations",
          Status |-> "SUCCESS"]

\* lines 179-193 and 197-213: the response of Create/Update and of Delete
ConfigRespond ==
    /\ fn = "config" /\ pc = "respond"
    /\ IF Has(event, "StackId") /\ cfnresponse_available
       THEN IF Has(event, "ResponseURL")
            THEN \E delivered \in BOOLEAN :
                    /\ cfnresponse_send("SUCCESS", ConfigResponseData,
                                        generate_physical_id(event["StackId"].str,
                                                             event["LogicalResourceId"].str),
                                        delivered)
                    /\ pc' = "done" /\ error' = error
                    /\ result' = Returned(ConfigResponseData)
            ELSE /\ pc' = "except" /\ error' = "KeyError" /\ result' = result
                 /\ UNCHANGED <<callbacks, reported>>
       ELSE /\ pc' = "done" /\ error' = error /\ result' = Returned(ConfigResponseData)
            /\ UNCHANGED <<callbacks, reported>>
    /\ UNCHANGED <<fn, cfnresponse_available, table, invocations, event, entry_event,
                   context, properties, idx, copied_count, failed_copies, puts, copies>>

\* lines 217-220
error_response == [Error |-> error, Status |-> "FAILED"]

\* lines 215-233: the except clause
ConfigExcept ==
    /\ fn = "config" /\ pc = "except"
    /\ pc' = "done"
    /\ IF Has(event, "StackId")
       THEN IF cfnresponse_available
            THEN IF Has(event, "ResponseURL")
                 THEN \E delivered \in BOOLEAN :
                         /\ cfnresponse_send("FAILED", error_response,
                                             generate_physical_id(event["StackId"].str,
                                                                  event["LogicalResourceId"].str),
                                             delivered)
                         /\ result' = Returned(error_response)
                 ELSE /\ result' = Raised("KeyError")
                      /\ UNCHANGED <<callbacks, reported>>
            ELSE /\ result' = Returned(error_response)
                 /\ UNCHANGED <<callbacks, reported>>
       ELSE /\ result' = Raised(error)
            /\ UNCHANGED <<callbacks, reported>>
    /\ UNCHANGED <<fn, cfnresponse_available, table, invocations, event, entry_event,
                   context, properties, idx, copied_count, failed_copies, puts, copies,
                   error>>

-----------------------------------------------------------------------------

\* The Lambda runtime calls handler(event, context)
Invoke ==
    /\ pc = "idle" /\ invocations < MaxInvocations
    /\ invocations' = invocations + 1
    /\ \E ev \in (IF fn = "copy" THEN CopyEvents ELSE ConfigEvents), ls \in LogStreams :
          /\ event' = ev /\ entry_event' = ev
          /\ context' = [log_stream_name |-> ls]
    /\ pc' = "start"
    /\ UNCHANGED <<fn, cfnresponse_available, table, reported, properties, idx,
                   copied_count, failed_copies, puts, copies, callbacks,
                   error, result>>

\* The invocation is over: nothing of it is kept but the table and what the
\* orchestrator was told
Finish ==
    /\ pc = "done"
    /\ pc' = "idle" /\ result' = Running /\ error' = ""
    /\ event' = EmptyMap /\ entry_event' = EmptyMap
    /\ context' = [log_stream_name |-> ""]
    /\ properties' = EmptyMap /\ idx' = 1 /\ copied_count' = 0 /\ failed_copies' = << >>
    /\ puts' = << >> /\ copies' = << >> /\ callbacks' = << >>
    /\ UNCHANGED <<fn, cfnresponse_available, table, reported, invocations>>

Init ==
    /\ \/ fn = "copy" /\ cfnresponse_available = FALSE
       \/ fn = "config" /\ cfnresponse_available \in BOOLEAN
    /\ table = EmptyMap /\ reported = {} /\ invocations = 0
    /\ event = EmptyMap /\ entry_event = EmptyMap
    /\ context = [log_stream_name |-> ""]
    /\ pc = "idle" /\ result = Running /\ error = ""
    /\ properties = EmptyMap /\ idx = 1 /\ copied_count = 0 /\ failed_copies = << >>
    /\ puts = << >> /\ copies = << >> /\ callbacks = << >>

Next ==
    \/ Invoke \/ Finish
    \/ CopyValidate \/ CopyFile \/ CopyFinish \/ CopyExcept
    \/ ConfigStart \/ ConfigSchema \/ ConfigDefault \/ ConfigCustom
    \/ ConfigRespond \/ ConfigExcept

Spec == Init /\ [][Next]_vars

-----------------------------------------------------------------------------
(* Properties *)

Done == pc = "done"
AllDelivered == \A i \in DOMAIN callbacks : callbacks[i].delivered
DirectMode == ~Has(event, "StackId") /\ ~Has(event, "ResponseURL")
EventRequestType == Get(event, "RequestType", None)

\* The properties the caller passed in
InputProperties == Get(entry_event, "ResourceProperties", Dict(EmptyMap)).map

\* The copy handler went through its copy loop: valid properties, Create or Update
ValidCopyProps ==
    /\ Len(missing_keys) = 0 /\ IsList(file_list)
    /\ IsStr(resource_props["SourcePrefix"])
CopyJob ==
    /\ fn = "copy" /\ ValidCopyProps
    /\ EventRequestType \in {Str("Create"), Str("Update")}

\* What the invocation reported: a direct result, or the last callback
ReportsSuccess ==
    IF fn = "copy"
    THEN IF is_cfn
         THEN /\ Len(callbacks) > 0
              /\ callbacks[Len(callbacks)].body.Status = "SUCCESS"
         ELSE result.kind = "return" /\ result.value.statusCode = 200
    ELSE /\ result.kind = "return" /\ result.value # None
         /\ result.value.Status = "SUCCESS"
         /\ \A i \in DOMAIN callbacks : callbacks[i].body.Status = "SUCCESS"

ReportsFailure ==
    IF is_cfn
    THEN Len(callbacks) > 0 /\ callbacks[Len(callbacks)].body.Status = "FAILED"
    ELSE result.kind = "return" /\ result.value.statusCode = 500

\* C1: in direct mode (no StackId, no ResponseURL) every invocation of either
\* handler ends by returning a result object: it never raises and never
\* returns nothing.
C1_DirectModeReturnsResult ==
    (Done /\ DirectMode) => (result.kind = "return" /\ result.value # None)

\* C2: an invocation with RequestType = Delete issues no store put and no copy
\* request and reports success, whatever ResourceProperties holds (callback
\* deliveries that fail are left aside).
C2_DeleteIsNoOpSuccess ==
    (Done /\ EventRequestType = Str("Delete") /\ AllDelivered)
        => (puts = << >> /\ copies = << >> /\ ReportsSuccess)

\* C3: a copy Create/Update with valid properties is reported failed if and
\* only if at least one copy request was attempted and none succeeded.
C3_FailedIffAttemptedNoneSucceeded ==
    (Done /\ CopyJob /\ AllDelivered)
        => (ReportsFailure <=> (Len(copies) > 0 /\ copied_count = 0))

NonBlankEntries == {i \in DOMAIN file_list.lst : strip(file_list.lst[i].str) # ""}
IsNonBlank(entry) == strip(entry.str) # ""
\* The response data the handler gave out: directly, or in its callbacks
EmittedData ==
    (IF result.kind = "return" /\ result.value # None THEN {result.value.body} ELSE {})
    \cup {callbacks[i].body.Data : i \in DOMAIN callbacks}
FailedRequests == SelectSeq(copies, LAMBDA c : ~c.ok)

\* C4: when a copy Create/Update is over, exactly one copy request was issued
\* for each non-blank entry of FileList, in list order, whether or not earlier
\* ones failed; each failed request is recorded with its source key; and in the
\* response CopiedFiles + FailedFiles = TotalFiles = the number of non-blank
\* entries.
C4_EveryEntryAttempted ==
    (CopyJob /\ pc \in {"done", "except"}) =>
        LET nonblank == SelectSeq(file_list.lst, IsNonBlank)
        IN /\ Len(copies) = Cardinality(NonBlankEntries)
           /\ \A j \in DOMAIN copies :
                 copies[j].request.CopySource.Key
                     = JoinKey(source_prefix, NormalizedPath(nonblank[j]))
           /\ Len(failed_copies) = Len(FailedRequests)
           /\ \A j \in DOMAIN failed_copies :
                 failed_copies[j].key = FailedRequests[j].request.CopySource.Key
           /\ \A d \in EmittedData :
                 "CopiedFiles" \in DOMAIN d =>
                     /\ d.CopiedFiles + d.FailedFiles = d.TotalFiles
                     /\ d.TotalFiles = Cardinality(NonBlankEntries)
                     /\ d.CopiedFiles = Len(copies) - Len(FailedRequests)

\* C4 witness: two entries, the first copy failed and the second was still
\* issued and succeeded, and the counts were returned
C4_Witness ==
    /\ Done /\ CopyJob /\ Len(copies) = 2
    /\ ~copies[1].ok /\ copies[2].ok
    /\ result.kind = "return" /\ result.value # None
    /\ result.value.statusCode = 200
    /\ result.value.body.FailedFiles = 1 /\ result.value.body.TotalFiles = 2

\* C5: the delivered SUCCESS callbacks of a Create and of an Update for the
\* same StackId and LogicalResourceId carry the same PhysicalResourceId,
\* whatever the log streams of the two invocations.
C5_PhysicalIdStable ==
    \A a \in reported, b \in reported :
        (/\ a.RequestType = "Create" /\ b.RequestType = "Update"
         /\ a.StackId # "" /\ a.StackId = b.StackId
         /\ a.LogicalResourceId = b.LogicalResourceId)
            => a.PhysicalResourceId = b.PhysicalResourceId

\* C6: every item the configuration handler stores has its Configuration field
\* equal to the configuration name the write was made for.
C6_PartitionKeyIsName ==
    \A i \in DOMAIN puts :
        puts[i].ok => puts[i].item["Configuration"] = Str(puts[i].name)

\* C7: an invocation whose event has StackId but no ResponseURL does not end
\* with a successful direct result without having attempted a callback.
C7_NoSilentDirectResult ==
    (Done /\ Has(event, "StackId") /\ ~Has(event, "ResponseURL"))
        => (Len(callbacks) > 0 \/ ~ReportsSuccess)

\* C8: a copy-handler invocation in which a callback PUT failed ends by raising.
C8_UndeliveredCallbackRaises ==
    (Done /\ fn = "copy" /\ ~AllDelivered) => result.kind = "raise"

RequestTypeErrors ==
    {MsgMissingRequestType}
    \cup (IF IsStr(EventRequestType) THEN {MsgUnknownRequestType(EventRequestType.str)}
          ELSE {})

\* C9: a copy-handler invocation whose RequestType is absent, empty or not one
\* of Create/Update/Delete issues no copy request and reports the RequestType
\* input error, whatever ResourceProperties holds.
C9_BadRequestTypeReportedFirst ==
    (Done /\ fn = "copy" /\ AllDelivered
          /\ EventRequestType \notin {Str("Create"), Str("Update"), Str("Delete")})
        => /\ copies = << >>
           /\ IF is_cfn
              THEN /\ Len(callbacks) = 1
                   /\ callbacks[1].body.Status = "FAILED"
                   /\ callbacks[1].body.Reason \in RequestTypeErrors
              ELSE \E msg \in RequestTypeErrors : result = Returned(DirectError(400, msg))

ConfigNames == {"Schema", "Default", "Custom"}

\* C10: a record named Schema, Default or Custom is stored only if that name is
\* a key of the input properties, a Custom record only if Custom is a mapping
\* whose Info is not the sentinel, and an invocation whose only configuration
\* input is a skipped Custom succeeds.
C10_WrittenOnlyIfGiven ==
    fn = "config" =>
        /\ \A i \in DOMAIN puts :
              LET name == puts[i].item["Configuration"].str
              IN (puts[i].ok /\ name \in ConfigNames) =>
                    /\ name \in DOMAIN InputProperties
                    /\ name = "Custom" => CustomWritable(InputProperties["Custom"])
        /\ (/\ Done /\ DirectMode
            /\ EventRequestType \in {Str("Create"), Str("Update")}
            /\ DOMAIN InputProperties \cap ConfigNames = {"Custom"}
            /\ ~CustomWritable(InputProperties["Custom"]))
              => (puts = << >> /\ ReportsSuccess)

\* What the caller's Default stands for: the parsed object it points to, or
\* the value itself
ResolvedDefault ==
    LET d == Get(InputProperties, "Default", None)
    IN IF IsStr(d) /\ d.str \in DOMAIN S3Objects THEN ParseBody(S3Objects[d.str]) ELSE d

\* A string with a character that is not a blank
NonEmptyOverride(v) ==
    IsStr(v) /\ \E i \in 1..Len(v.str) : SubSeq(v.str, i, i) # " "
OverrideOf(section) ==
    IF section = "classification"
    THEN Get(InputProperties, "CustomClassificationModelARN", None)
    ELSE IF section = "extraction"
    THEN Get(InputProperties, "CustomExtractionModelARN", None)
    ELSE None
\* stored is the section `given`, as stored, with nothing but its model replaced
ModelReplaced(stored, given, by) ==
    /\ DOMAIN stored.map = DOMAIN given.map \cup {"model"}
    /\ stored.map["model"] = by
    /\ \A f \in DOMAIN given.map \ {"model"} :
          stored.map[f] = convert_floats_to_decimal(given.map[f])
DefaultPuts == {i \in DOMAIN puts : puts[i].name = "Default" /\ puts[i].ok}

\* C11: the persisted Default record has the sections of the resolved content
\* and no other; a section is stored with its model replaced by its override
\* when that override is a string with a non-blank character, and is stored
\* as resolved otherwise (blank or absent override, no override for it).
C11_DefaultDiffersOnlyByOverrides ==
    \A i \in DefaultPuts :
        LET item == puts[i].item
            content == ResolvedDefault.map
            sections == DOMAIN content \ {"Configuration"}
        IN /\ DOMAIN item \ {"Configuration"} = sections
           /\ \A k \in sections :
                 IF NonEmptyOverride(OverrideOf(k))
                 THEN ModelReplaced(item[k], content[k], OverrideOf(k))
                 ELSE item[k] = convert_floats_to_decimal(content[k])

\* A Default was persisted with the classification model overridden, a blank
\* extraction override, and the extraction section as it was resolved
C11_Witness ==
    /\ Done /\ DefaultPuts # {}
    /\ OverrideOf("classification") = Str("arn:cls")
    /\ OverrideOf("extraction") = Str("  ")
    /\ ResolvedDefault = DefaultBoth
    /\ "Default" \in DOMAIN table
    /\ table["Default"]["classification"].map["model"] = Str("arn:cls")
    /\ table["Default"]["extraction"] = convert_floats_to_decimal(DefaultBoth.map["extraction"])

\* An extraction override was given but the content has no such section:
\* none was created
C11_NoSectionCreated ==
    /\ Done /\ DefaultPuts # {}
    /\ NonEmptyOverride(OverrideOf("extraction"))
    /\ ResolvedDefault = DefaultKeyed
    /\ \A i \in DefaultPuts : ~Has(puts[i].item, "extraction")

\* The successful put_item calls of this invocation made for a name, and the
\* last of them
PutsNamed(name) == {i \in DOMAIN puts : puts[i].name = name /\ puts[i].ok}
IsLastPutNamed(i) == i \in PutsNamed(puts[i].name) /\ \A j \in PutsNamed(puts[i].name) : j <= i

\* C12: the record stored for a configuration name is exactly the record
\* produced by the last write made for that name: the name has a stored
\* record, and it has every field of that record and no other.
C12_StoredIsLastWritten ==
    \A i \in DOMAIN puts :
        (EventRequestType \in {Str("Create"), Str("Update")} /\ IsLastPutNamed(i))
            => (Has(table, puts[i].name) /\ table[puts[i].name] = puts[i].item)

AllOf(s, c) == \A i \in 1..Len(s) : SubSeq(s, i, i) = c
FirstIs(s, c) == Len(s) > 0 /\ SubSeq(s, 1, 1) = c
LastIs(s, c) == Len(s) > 0 /\ SubSeq(s, Len(s), Len(s)) = c
\* s without its leading blanks, and without its trailing blanks
NoLeadingBlanks(s) ==
    LET i == CHOOSE i \in 1..Len(s) + 1 :
                 AllOf(SubSeq(s, 1, i - 1), " ") /\ ~FirstIs(SubSeq(s, i, Len(s)), " ")
    IN SubSeq(s, i, Len(s))
NoTrailingBlanks(s) ==
    LET j == CHOOSE j \in 0..Len(s) :
                 AllOf(SubSeq(s, j + 1, Len(s)), " ") /\ ~LastIs(SubSeq(s, 1, j), " ")
    IN SubSeq(s, 1, j)
Trimmed(s) == NoTrailingBlanks(NoLeadingBlanks(s))
\* The trimmed prefix: no blanks around it, then no slashes at its end
TrimmedPrefix(raw) ==
    LET t == Trimmed(raw)
        n == CHOOSE n \in 0..Len(t) :
                 AllOf(SubSeq(t, n + 1, Len(t)), "/") /\ ~LastIs(SubSeq(t, 1, n), "/")
    IN SubSeq(t, 1, n)
\* The entry without its leading slashes
EntryPath(raw) ==
    LET t == Trimmed(raw)
        n == CHOOSE n \in 1..Len(t) + 1 :
                 AllOf(SubSeq(t, 1, n - 1), "/") /\ ~FirstIs(SubSeq(t, n, Len(t)), "/")
    IN SubSeq(t, n, Len(t))
\* key is prefix, one slash, path, or path alone when there is no prefix
JoinedOnce(key, prefix, path) ==
    IF prefix = ""
    THEN key = path /\ ~FirstIs(key, "/")
    ELSE /\ key = prefix \o "/" \o path
         /\ ~LastIs(prefix, "/") /\ ~FirstIs(path, "/")

\* C13: the source and target keys of every copy request are the trimmed
\* prefix, one slash, and the entry without its leading slashes, with no
\* doubled slash at the join; when the prefix is empty after trimming the key
\* is the entry alone, with no leading slash.
C13_KeysJoinedWithOneSlash ==
    CopyJob =>
        LET nonblank == SelectSeq(file_list.lst, IsNonBlank)
            source == TrimmedPrefix(resource_props["SourcePrefix"].str)
            target == TrimmedPrefix(Get(resource_props, "TargetPrefix", Str("")).str)
        IN \A j \in DOMAIN copies :
              /\ j <= Len(nonblank)
              /\ LET path == EntryPath(nonblank[j].str)
                 IN /\ JoinedOnce(copies[j].request.CopySource.Key, source, path)
                    /\ JoinedOnce(copies[j].request.Key, target, path)

\* A prefix with blanks around it and a trailing slash was joined to an entry
\* with a leading slash
C13_Witness ==
    /\ Done /\ CopyJob
    /\ resource_props["SourcePrefix"] = Str(" cfg/ ")
    /\ \E j \in DOMAIN copies :
          /\ copies[j].request.CopySource.Key = "cfg/b.json"
          /\ copies[j].request.Key = "out/b.json"

\* A prefix of nothing but blanks and slashes: the key is the entry alone
C13_EmptyPrefixReached ==
    /\ Done /\ CopyJob
    /\ resource_props["SourcePrefix"] = Str(" // ")
    /\ \E j \in DOMAIN copies :
          copies[j].request.CopySource.Key = "c.json" /\ copies[j].request.Key = "c.json"

\* No successful put of this invocation stored a ServiceToken
NoServiceTokenStored ==
    /\ \A i \in DOMAIN puts : ~Has(puts[i].item, "ServiceToken")
    /\ \A k \in DOMAIN table : ~Has(table[k], "ServiceToken")

\* C14: after a Create/Update invocation of the configuration handler the
\* caller's event, every nested value under ResourceProperties included, is
\* what it was when the invocation started, and no stored record has a
\* ServiceToken.
C14_EventUnchanged ==
    (fn = "config" /\ Done
     /\ Get(entry_event, "RequestType", None) \in {Str("Create"), Str("Update")})
        => (event = entry_event /\ NoServiceTokenStored)
====
